---- MODULE Spec2Model ----
(***************************************************************************)
(* Community service: the controller's seven handlers                      *)
(* (community-service/controllers/communityController.js), the Community   *)
(* model and the user_communities table, as a state machine over the       *)
(* database.  Every `await` of a handler is a step: requests interleave at *)
(* the storage calls, each SQL statement is atomic.                        *)
(***************************************************************************)
EXTENDS Integers, Sequences, FiniteSets, TLC

\* ------------------------------------------------------------------ bounds
MaxProcs == 2          \* requests in flight at the same time
MaxRequests == 2       \* requests served in one behaviour
MaxJoinProcs == 3      \* the same two for the joins-only specification
MaxJoinRequests == 4
MaxMemberProcs == 1    \* and for the member-list specification
MaxMemberRequests == 4
MaxId == 2             \* community ids a request may address: 1..MaxId
MaxTime == 2           \* values CURRENT_TIMESTAMP takes: 0..MaxTime

Ids == 1..MaxId

\* ------------------------------------------------------------- JS values
Undefined == [t |-> "undefined"]
Null == [t |-> "null"]
Str(s) == [t |-> "string", v |-> s]
Num(n) == [t |-> "number", v |-> n]

\* `!v` for the values a request body carries
Falsy(v) == v = Undefined \/ v = Null \/ v = Str("")

\* arr[i] of a JS array: 0-based, undefined past the end
JsIndex(arr, i) == IF i + 1 \in DOMAIN arr THEN arr[i + 1] ELSE Undefined

\* a column value as stored: an attribute left undefined is stored NULL
ToColumn(v) == IF v = Undefined THEN Null ELSE v

\* ---------------------------------------------------------------- inputs
\* req.user as the auth middleware resolves it
Admin == [id |-> 1, role |-> "admin"]
Member == [id |-> 2, role |-> "user"]
Guest == [id |-> 3, role |-> "user"]
Anonymous == [id |-> 0, role |-> "none"]
Callers == {Admin, Member, Guest}
UserIds == {c.id : c \in Callers}

NoBody == [name |-> Undefined, language |-> Undefined, description |-> Undefined]
Bodies ==
    { NoBody,
      [name |-> Str(""), language |-> Str("rust"), description |-> Undefined],
      [name |-> Str("Rustaceans"), language |-> Str("rust"), description |-> Undefined],
      [name |-> Str("Gophers"), language |-> Undefined, description |-> Str("go") ] }

NewRequest(op, user, id, body) ==
    [op |-> op, user |-> user, id |-> id, body |-> body,
     pc |-> "new", calls |-> <<>>, threw |-> "none", res |-> <<>>]

Idle == [NewRequest("none", Anonymous, 0, NoBody) EXCEPT !.pc = "idle"]

CreateRequests == {NewRequest("createCommunity", u, 0, b) : u \in Callers, b \in Bodies}
ListRequests == {NewRequest("getAllCommunities", Anonymous, 0, NoBody)}
GetRequests == {NewRequest("getCommunityById", Anonymous, i, NoBody) : i \in Ids}
JoinRequests == {NewRequest("joinCommunity", u, i, NoBody) : u \in Callers, i \in Ids}
LeaveRequests == {NewRequest("leaveCommunity", u, i, NoBody) : u \in Callers, i \in Ids}
MembersRequests == {NewRequest("getCommunityMembers", Member, i, NoBody) : i \in Ids}
MineRequests == {NewRequest("getUserCommunities", u, 0, NoBody) : u \in Callers}
AllRequests ==
    CreateRequests \cup ListRequests \cup GetRequests \cup JoinRequests
        \cup LeaveRequests \cup MembersRequests \cup MineRequests

\* ----------------------------------------------------------------- state
VARIABLES
    communities,       \* table communities: rows [id, name, language, description]
    communitySeq,      \* last id the autoIncrement of communities.id gave out
    users,             \* ids of the rows of table users (owned by another service)
    tableExists,       \* whether table user_communities exists
    user_communities,  \* its rows [id, user_id, community_id, joined_at]
    ucSeq,             \* last value of the SERIAL sequence of user_communities.id
    clock,             \* CURRENT_TIMESTAMP
    reqs,              \* per slot, the request it serves and the handler's position
    served             \* requests accepted so far

vars == <<communities, communitySeq, users, tableExists, user_communities, ucSeq,
          clock, reqs, served>>
db == <<communities, communitySeq, users, tableExists, user_communities, ucSeq>>

\* --------------------------------------------------------------- storage
CommunityIdsPresent == {c.id : c \in communities}

\* Community.findByPk(id): the row, or null
FindByPk(id) ==
    IF id \in CommunityIdsPresent
    THEN CHOOSE c \in communities : c.id = id
    ELSE Null

\* Community.create({ name, language, description }): the row inserted
NewCommunity(body) ==
    [id |-> communitySeq + 1, name |-> ToColumn(body.name),
     language |-> ToColumn(body.language), description |-> ToColumn(body.description)]

MembershipRows(u, c) ==
    {m \in user_communities : m.user_id = u /\ m.community_id = c}

\* (mutant) the table declared without its REFERENCES clauses
NoForeignKeys(u, c) == TRUE

\* user_id REFERENCES users(id), community_id REFERENCES communities(id)
ForeignKeysHold(u, c) == u \in users /\ c \in CommunityIdsPresent

\* UNIQUE(user_id, community_id): a row for the pair is already there
UniqueConflict(u, c) == MembershipRows(u, c) # {}

\* (mutant) the table declared without UNIQUE(user_id, community_id)
InsertMembershipNoUnique(u, c) ==
    IF ~tableExists \/ ~ForeignKeysHold(u, c)
    THEN [ok |-> FALSE, table |-> user_communities]
    ELSE [ok |-> TRUE,
          table |-> user_communities \cup
              {[id |-> ucSeq + 1, user_id |-> u, community_id |-> c, joined_at |-> clock]}]

\* (mutant) the INSERT without its ON CONFLICT clause: a second row for the
\* pair is a unique violation, which throws
InsertMembershipPlain(u, c) ==
    IF ~tableExists \/ UniqueConflict(u, c) \/ ~ForeignKeysHold(u, c)
    THEN [ok |-> FALSE, table |-> user_communities]
    ELSE [ok |-> TRUE,
          table |-> user_communities \cup
              {[id |-> ucSeq + 1, user_id |-> u, community_id |-> c, joined_at |-> clock]}]

\* INSERT INTO user_communities (user_id, community_id) VALUES (u, c)
\* ON CONFLICT (user_id, community_id) DO NOTHING.
\* The statement throws when the table is missing or a foreign key is violated.
InsertMembership(u, c) ==
    IF ~tableExists THEN [ok |-> FALSE, table |-> user_communities]
    ELSE IF UniqueConflict(u, c) THEN [ok |-> TRUE, table |-> user_communities]
    ELSE IF ~ForeignKeysHold(u, c) THEN [ok |-> FALSE, table |-> user_communities]
    ELSE [ok |-> TRUE,
          table |-> user_communities \cup
              {[id |-> ucSeq + 1, user_id |-> u, community_id |-> c, joined_at |-> clock]}]

\* (mutant) the DELETE without `user_id = :userId` in its WHERE clause
DeleteMembershipAnyUser(u, c) == {m \in user_communities : m.community_id # c}

\* DELETE FROM user_communities WHERE user_id = u AND community_id = c
DeleteMembership(u, c) ==
    {m \in user_communities : ~(m.user_id = u /\ m.community_id = c)}

\* What sequelize.query resolves to under type QueryTypes.DELETE: the rows the
\* statement returned.  The DELETE has no RETURNING clause, so that is the
\* empty array whatever the number of rows deleted (the [rows, count] pair is
\* the shape of QueryTypes.INSERT / UPDATE / RAW).
DeleteQueryResult(deleted) == << >>

\* ------------------------------------------------------------- responses
ErrorJson(msg) == [error |-> msg]
MessageJson(msg) == [message |-> msg]
InternalError == ErrorJson("Internal server error")

\* return res.status(s).json(j)
Respond(r, status, json) ==
    [r EXCEPT !.res = Append(@, [status |-> status, json |-> json]), !.pc = "done"]

\* the catch block of every handler
HandlerCatch(r) == Respond(r, 500, InternalError)

\* where each handler goes on after `await createUserCommunityModel()`
AfterSchema(op) ==
    CASE op = "joinCommunity" -> "insert"
      [] op = "leaveCommunity" -> "delete"
      [] op = "getCommunityMembers" -> "selectMembers"
      [] op = "getUserCommunities" -> "selectCommunities"

\* (mutant) the catch block of createUserCommunityModel without its `throw error`
SchemaCatchSwallow(r) == [r EXCEPT !.pc = AfterSchema(r.op)]

\* the catch block of createUserCommunityModel: log and rethrow
SchemaCatch(r) == HandlerCatch(r)

Call(r, name) == [r EXCEPT !.calls = Append(@, name)]

\* the storage call the request awaits throws
Throw(r) ==
    LET t == [Call(r, r.pc) EXCEPT !.threw = r.pc]
    IN  IF r.pc = "schema" THEN SchemaCatch(t) ELSE HandlerCatch(t)

StoragePcs ==
    {"create", "findAll", "findByPk", "schema", "insert", "delete",
     "selectMembers", "selectCommunities"}

\* -------------------------------------------------------------- handlers
\* (mutant) createCommunity checking the name before the role
createCommunityEntryNameFirst(r) ==
    IF Falsy(r.body.name)
    THEN Respond(r, 400, ErrorJson("Community name is required"))
    ELSE IF r.user.role # "admin"
    THEN Respond(r, 403, ErrorJson("Only admins can create communities"))
    ELSE [r EXCEPT !.pc = "create"]

\* (mutant) createCommunity without its role check
createCommunityEntryNoRoleCheck(r) ==
    IF Falsy(r.body.name)
    THEN Respond(r, 400, ErrorJson("Community name is required"))
    ELSE [r EXCEPT !.pc = "create"]

\* The synchronous head of each handler, up to its first await.
createCommunityEntry(r) ==
    IF r.user.role # "admin"
    THEN Respond(r, 403, ErrorJson("Only admins can create communities"))
    ELSE IF Falsy(r.body.name)
    THEN Respond(r, 400, ErrorJson("Community name is required"))
    ELSE [r EXCEPT !.pc = "create"]

Enter(r) ==
    CASE r.op = "createCommunity" -> createCommunityEntry(r)
      [] r.op = "getAllCommunities" -> [r EXCEPT !.pc = "findAll"]
      [] r.op \in {"getCommunityById", "joinCommunity", "getCommunityMembers"} ->
            [r EXCEPT !.pc = "findByPk"]
      [] r.op \in {"leaveCommunity", "getUserCommunities"} -> [r EXCEPT !.pc = "schema"]

\* A request arrives and its handler runs to its first await.  Slots only name
\* the requests in flight: a request takes the first free one (a slot whose
\* request was answered is free, and keeps the answer until it is taken).
Free(p) == reqs[p].pc \in {"idle", "done"}

Arrive(p, rq, budget) ==
    /\ Free(p)
    /\ \A q \in DOMAIN reqs : q < p => ~Free(q)
    /\ served < budget
    /\ reqs' = [reqs EXCEPT ![p] = Enter(rq)]
    /\ served' = served + 1
    /\ UNCHANGED <<db, clock>>

At(p, op, pc) == reqs[p].op = op /\ reqs[p].pc = pc

Step(p, r) == reqs' = [reqs EXCEPT ![p] = r]

\* createCommunity, from Community.create on
createCommunity(p) ==
    /\ At(p, "createCommunity", "create")
    /\ LET community == NewCommunity(reqs[p].body)
       IN  /\ communities' = communities \cup {community}
           /\ communitySeq' = communitySeq + 1
           /\ Step(p, Respond(Call(reqs[p], "create"), 201, community))
    /\ UNCHANGED <<users, tableExists, user_communities, ucSeq, clock, served>>

getAllCommunities(p) ==
    /\ At(p, "getAllCommunities", "findAll")
    /\ Step(p, Respond(Call(reqs[p], "findAll"), 200, [communities |-> communities]))
    /\ UNCHANGED <<db, clock, served>>

\* (mutant) the 404 branch without its `return`: the handler answers and goes on
NotFoundOrFallThrough(r, community, found) ==
    IF community = Null
    THEN [found EXCEPT !.res = Append(r.res,
              [status |-> 404, json |-> ErrorJson("Community not found")])]
    ELSE found

\* if (!community) return res.status(404)...; else the rest of the handler
NotFoundOr(r, community, found) ==
    IF community = Null
    THEN Respond(r, 404, ErrorJson("Community not found"))
    ELSE found

getCommunityById(p) ==
    /\ At(p, "getCommunityById", "findByPk")
    /\ LET r == Call(reqs[p], "findByPk")
           community == FindByPk(r.id)
       IN  Step(p, NotFoundOr(r, community, Respond(r, 200, community)))
    /\ UNCHANGED <<db, clock, served>>

\* joinCommunity and getCommunityMembers, the existence check
joinCommunityFind(p) ==
    /\ At(p, "joinCommunity", "findByPk")
    /\ LET r == Call(reqs[p], "findByPk")
       IN  Step(p, NotFoundOr(r, FindByPk(r.id), [r EXCEPT !.pc = "schema"]))
    /\ UNCHANGED <<db, clock, served>>

getCommunityMembersFind(p) ==
    /\ At(p, "getCommunityMembers", "findByPk")
    /\ LET r == Call(reqs[p], "findByPk")
       IN  Step(p, NotFoundOr(r, FindByPk(r.id), [r EXCEPT !.pc = "schema"]))
    /\ UNCHANGED <<db, clock, served>>

\* createUserCommunityModel: CREATE TABLE IF NOT EXISTS user_communities
createUserCommunityModel(p) ==
    /\ reqs[p].pc = "schema"
    /\ tableExists' = TRUE
    /\ Step(p, [Call(reqs[p], "schema") EXCEPT !.pc = AfterSchema(reqs[p].op)])
    /\ UNCHANGED <<communities, communitySeq, users, user_communities, ucSeq, clock, served>>

JoinOk == MessageJson("Successfully joined community")
LeaveOk == MessageJson("Successfully left community")

joinCommunityInsert(p) ==
    /\ At(p, "joinCommunity", "insert")
    /\ LET r == Call(reqs[p], "insert")
           done == InsertMembership(r.user.id, r.id)
       IN  /\ user_communities' = done.table
           /\ ucSeq' = IF tableExists THEN ucSeq + 1 ELSE ucSeq
           /\ Step(p, IF done.ok THEN Respond(r, 200, JoinOk)
                      ELSE HandlerCatch([r EXCEPT !.threw = "insert"]))
    /\ UNCHANGED <<communities, communitySeq, users, tableExists, clock, served>>

\* leaveCommunity, after the DELETE: result[1] === 0 answers 404
leaveCommunityRespond(r, result) ==
    IF JsIndex(result, 1) = Num(0)
    THEN Respond(r, 404, ErrorJson("Membership not found"))
    ELSE Respond(r, 200, LeaveOk)

leaveCommunityDelete(p) ==
    /\ At(p, "leaveCommunity", "delete")
    /\ LET r == Call(reqs[p], "delete")
           deleted == Cardinality(MembershipRows(r.user.id, r.id))
       IN  IF tableExists
           THEN /\ user_communities' = DeleteMembership(r.user.id, r.id)
                /\ Step(p, leaveCommunityRespond(r, DeleteQueryResult(deleted)))
           ELSE /\ user_communities' = user_communities
                /\ Step(p, HandlerCatch([r EXCEPT !.threw = "delete"]))
    /\ UNCHANGED <<communities, communitySeq, users, tableExists, ucSeq, clock, served>>

\* all orders in which a SELECT may return the rows of S
Orderings(S) ==
    {s \in [1..Cardinality(S) -> S] : \A x \in S : \E i \in DOMAIN s : s[i] = x}

\* (mutant) ORDER BY uc.joined_at DESC
OrderedByJoinedAtDesc(s) ==
    \A i, j \in DOMAIN s : i < j => s[i].joined_at >= s[j].joined_at

\* ORDER BY uc.joined_at ASC (rows of equal joined_at come in any order)
OrderedByJoinedAt(s) ==
    \A i, j \in DOMAIN s : i < j => s[i].joined_at <= s[j].joined_at

\* SELECT u.id, ..., uc.joined_at FROM users u JOIN user_communities uc
\* ON u.id = uc.user_id WHERE uc.community_id = c
MemberRows(c) ==
    {[id |-> m.user_id, joined_at |-> m.joined_at] :
        m \in {x \in user_communities : x.community_id = c /\ x.user_id \in users}}

MembersQuery(c) == {s \in Orderings(MemberRows(c)) : OrderedByJoinedAt(s)}

\* SELECT c.* FROM communities c JOIN user_communities uc
\* ON c.id = uc.community_id WHERE uc.user_id = u
UserCommunitiesQuery(u) ==
    {c \in communities :
        \E m \in user_communities : m.community_id = c.id /\ m.user_id = u}

getCommunityMembersSelect(p) ==
    /\ At(p, "getCommunityMembers", "selectMembers")
    /\ LET r == Call(reqs[p], "selectMembers")
       IN  IF tableExists
           THEN \E members \in MembersQuery(r.id) :
                    Step(p, Respond(r, 200, [members |-> members]))
           ELSE Step(p, HandlerCatch([r EXCEPT !.threw = "selectMembers"]))
    /\ UNCHANGED <<db, clock, served>>

getUserCommunities(p) ==
    /\ At(p, "getUserCommunities", "selectCommunities")
    /\ LET r == Call(reqs[p], "selectCommunities")
       IN  IF tableExists
           THEN Step(p, Respond(r, 200, [communities |-> UserCommunitiesQuery(r.user.id)]))
           ELSE Step(p, HandlerCatch([r EXCEPT !.threw = "selectCommunities"]))
    /\ UNCHANGED <<db, clock, served>>

\* ----------------------------------------------------------- environment
\* The storage call a request awaits fails (connection lost, timeout, ...).
StorageFault(p) ==
    /\ reqs[p].pc \in StoragePcs
    /\ Step(p, Throw(reqs[p]))
    /\ UNCHANGED <<db, clock, served>>

\* A user or a community is deleted from outside this service;
\* ON DELETE CASCADE removes its rows of user_communities.
DeleteUser(u) ==
    /\ u \in users
    /\ users' = users \ {u}
    /\ user_communities' = {m \in user_communities : m.user_id # u}
    /\ UNCHANGED <<communities, communitySeq, tableExists, ucSeq, clock, reqs, served>>

DeleteCommunity(c) ==
    /\ c \in CommunityIdsPresent
    /\ communities' = {x \in communities : x.id # c}
    /\ user_communities' = {m \in user_communities : m.community_id # c}
    /\ UNCHANGED <<communitySeq, users, tableExists, ucSeq, clock, reqs, served>>

Tick ==
    /\ clock < MaxTime
    /\ clock' = clock + 1
    /\ UNCHANGED <<db, reqs, served>>

\* -------------------------------------------------------- specifications
\* One community exists, created earlier by an admin; nobody has joined yet.
SeedCommunity ==
    [id |-> 1, name |-> Str("General"), language |-> Null, description |-> Null]

\* The membership table at the start: not created yet, or as two earlier
\* joins of the seed community left it.
NoMemberships == [exists |-> FALSE, rows |-> {}, seq |-> 0]
BothJoined ==
    [exists |-> TRUE,
     rows |-> {[id |-> 1, user_id |-> Admin.id, community_id |-> 1, joined_at |-> 0],
               [id |-> 2, user_id |-> Member.id, community_id |-> 1, joined_at |-> 0]},
     seq |-> 2]

InitWith(userIds, procs, seeds) ==
    /\ communities = {SeedCommunity}
    /\ communitySeq = 1
    /\ users = userIds
    /\ \E seed \in seeds :
        /\ tableExists = seed.exists
        /\ user_communities = seed.rows
        /\ ucSeq = seed.seq
    /\ clock = 0
    /\ reqs = [p \in 1..procs |-> Idle]
    /\ served = 0

By(callers, requests) == {rq \in requests : rq.user \in callers \cup {Anonymous}}

\* The service: every handler, and storage calls that may fail.
Procs == DOMAIN reqs

Init == InitWith({Admin.id, Member.id}, MaxProcs, {NoMemberships, BothJoined})

Next ==
    \/ \E p \in Procs, rq \in By({Admin, Member}, AllRequests) :
            Arrive(p, rq, MaxRequests)
    \/ \E p \in Procs : createCommunity(p)
    \/ \E p \in Procs : getAllCommunities(p)
    \/ \E p \in Procs : getCommunityById(p)
    \/ \E p \in Procs : joinCommunityFind(p)
    \/ \E p \in Procs : getCommunityMembersFind(p)
    \/ \E p \in Procs : createUserCommunityModel(p)
    \/ \E p \in Procs : joinCommunityInsert(p)
    \/ \E p \in Procs : leaveCommunityDelete(p)
    \/ \E p \in Procs : getCommunityMembersSelect(p)
    \/ \E p \in Procs : getUserCommunities(p)
    \/ \E p \in Procs : StorageFault(p)

Spec == Init /\ [][Next]_vars

\* Joins only, storage never failing: the concurrency of joinCommunity.
NextJoin ==
    \/ \E p \in Procs, rq \in By({Admin, Member}, JoinRequests) :
            Arrive(p, rq, MaxJoinRequests)
    \/ \E p \in Procs : joinCommunityFind(p)
    \/ \E p \in Procs : createUserCommunityModel(p)
    \/ \E p \in Procs : joinCommunityInsert(p)

InitJoin == InitWith({Admin.id, Member.id}, MaxJoinProcs, {NoMemberships})

SpecJoin == InitJoin /\ [][NextJoin]_vars

\* Memberships against deletions of users and communities from outside.
NextExternal ==
    \/ \E p \in Procs,
          rq \in By({Admin, Member}, CreateRequests \cup JoinRequests \cup LeaveRequests) :
            Arrive(p, rq, MaxRequests)
    \/ \E p \in Procs : createCommunity(p)
    \/ \E p \in Procs : joinCommunityFind(p)
    \/ \E p \in Procs : createUserCommunityModel(p)
    \/ \E p \in Procs : joinCommunityInsert(p)
    \/ \E p \in Procs : leaveCommunityDelete(p)
    \/ \E u \in UserIds : DeleteUser(u)
    \/ \E c \in Ids : DeleteCommunity(c)

SpecExternal == Init /\ [][NextExternal]_vars

\* Member lists: joins and leaves at different times, then the listing.
InitMembers == InitWith(UserIds, MaxMemberProcs, {NoMemberships})

NextMembers ==
    \/ \E p \in Procs,
          rq \in JoinRequests \cup LeaveRequests \cup MembersRequests :
            Arrive(p, rq, MaxMemberRequests)
    \/ \E p \in Procs : joinCommunityFind(p)
    \/ \E p \in Procs : getCommunityMembersFind(p)
    \/ \E p \in Procs : createUserCommunityModel(p)
    \/ \E p \in Procs : joinCommunityInsert(p)
    \/ \E p \in Procs : leaveCommunityDelete(p)
    \/ \E p \in Procs : getCommunityMembersSelect(p)
    \/ Tick

SpecMembers == InitMembers /\ [][NextMembers]_vars

\* ---------------------------------------------------------------- claims
Joined(r) == r.op = "joinCommunity" /\ r.pc = "done"
Answer(r) == r.res[1]
Answered(r, status, json) == r.res = <<[status |-> status, json |-> json]>>

\* slot p takes a step of its request (its arrival included)
Moves(p) == reqs'[p] # reqs[p]
\* slot p executes the storage call it awaits at pc, and the call does not fail
Runs(p, op, pc) == At(p, op, pc) /\ Moves(p) /\ reqs'[p].threw = "none"

\* C1: joinCommunity requests for one (user, existing community), interleaved
\* in any way, leave exactly one membership row for the pair, and each of them
\* is answered 200, none with an error.
C1_ConcurrentJoins ==
    /\ \A p \in Procs :
        Joined(reqs[p]) /\ reqs[p].id \in CommunityIdsPresent =>
            /\ Answered(reqs[p], 200, JoinOk)
            /\ Cardinality(MembershipRows(reqs[p].user.id, reqs[p].id)) = 1
    /\ \A u \in UserIds, c \in Ids : Cardinality(MembershipRows(u, c)) <= 1

\* the only two requests served ran at the same time (the second took slot 2
\* because slot 1 was busy), both joined the same community as the same user
C1_Witness ==
    /\ served = 2
    /\ Joined(reqs[1]) /\ Joined(reqs[2])
    /\ reqs[1].user = reqs[2].user /\ reqs[1].id = reqs[2].id
    /\ Answered(reqs[1], 200, JoinOk) /\ Answered(reqs[2], 200, JoinOk)
    /\ Cardinality(MembershipRows(reqs[1].user.id, reqs[1].id)) = 1

\* C2: joinCommunity is idempotent: a join of a pair that already has its row
\* leaves the membership table as it was, with one row for the pair, and is
\* answered with the same 200 response as the join that created the row.
C2_JoinIdempotent ==
    [][\A p \in Procs :
        At(p, "joinCommunity", "insert") /\ Moves(p) =>
            /\ Answered(reqs'[p], 200, JoinOk)
            /\ Cardinality(MembershipRows(reqs[p].user.id, reqs[p].id)') = 1
            /\ UniqueConflict(reqs[p].user.id, reqs[p].id) =>
                    user_communities' = user_communities]_vars

\* two joins one after the other in slot 1, both ran their INSERT, one row
C2_Witness ==
    /\ served = 2 /\ ucSeq = 2
    /\ Joined(reqs[1]) /\ Answered(reqs[1], 200, JoinOk)
    /\ reqs[2] = Idle
    /\ user_communities = MembershipRows(reqs[1].user.id, reqs[1].id)
    /\ Cardinality(user_communities) = 1

\* C3: leaveCommunity answers 200 exactly when a row for (caller, community)
\* existed when its DELETE ran and 404 when none did; no row for the pair is
\* left either way.
C3_LeaveReportsMembership ==
    [][\A p \in Procs :
        Runs(p, "leaveCommunity", "delete") =>
            LET had == MembershipRows(reqs[p].user.id, reqs[p].id) # {}
            IN  /\ had => Answered(reqs'[p], 200, LeaveOk)
                /\ ~had => Answered(reqs'[p], 404, ErrorJson("Membership not found"))
                /\ MembershipRows(reqs[p].user.id, reqs[p].id)' = {}]_vars

\* C4: joinCommunity of a community id that does not exist answers 404, runs
\* neither the schema creation nor the insert, and leaves the membership table
\* as it was.
C4_JoinMissingCommunity ==
    [][\A p \in Procs :
        Runs(p, "joinCommunity", "findByPk") /\ FindByPk(reqs[p].id) = Null =>
            /\ reqs'[p].pc = "done"
            /\ Answered(reqs'[p], 404, ErrorJson("Community not found"))
            /\ reqs'[p].calls = <<"findByPk">>
            /\ UNCHANGED <<tableExists, user_communities, ucSeq>>]_vars

C4_Witness ==
    \E p \in Procs :
        /\ Joined(reqs[p]) /\ reqs[p].id \notin CommunityIdsPresent
        /\ Answered(reqs[p], 404, ErrorJson("Community not found"))

\* C5: a rejected createCommunity persists nothing: a caller who is not admin
\* is answered 403, also with an empty name; an admin with an empty or missing
\* name is answered 400; both before any storage call, communities unchanged.
C5_CreateRejected ==
    [][\A p \in Procs :
        Free(p) /\ Moves(p) /\ reqs'[p].op = "createCommunity" =>
            LET r == reqs'[p]
                rejected(status, msg) ==
                    /\ r.pc = "done"
                    /\ Answered(r, status, ErrorJson(msg))
                    /\ r.calls = << >>
                    /\ UNCHANGED db
            IN  /\ r.user.role # "admin" =>
                    rejected(403, "Only admins can create communities")
                /\ r.user.role = "admin" /\ r.body.name \in {Undefined, Str("")} =>
                    rejected(400, "Community name is required")]_vars

\* a caller who is not admin, with an empty name, was answered 403
C5_Witness ==
    \E p \in Procs :
        /\ reqs[p].op = "createCommunity" /\ reqs[p].user.role # "admin"
        /\ reqs[p].body.name = Str("")
        /\ Answered(reqs[p], 403, ErrorJson("Only admins can create communities"))

\* C6: whatever the interleaving of create, join, leave and deletions of users
\* and communities from outside, every membership row references a user row
\* and a community row that exist.
C6_NoDanglingMembership ==
    \A m \in user_communities :
        m.user_id \in users /\ m.community_id \in CommunityIdsPresent

\* a join whose community was deleted between its existence check and its
\* INSERT: the INSERT threw, and the pair has no row
C6_Witness ==
    \E p \in Procs :
        /\ Joined(reqs[p]) /\ reqs[p].threw = "insert"
        /\ reqs[p].calls = <<"findByPk", "schema", "insert">>
        /\ reqs[p].id \notin CommunityIdsPresent
        /\ reqs[p].user.id \in users
        /\ MembershipRows(reqs[p].user.id, reqs[p].id) = {}

\* C7: getCommunityMembers of an existing community answers 200 with exactly
\* the users that have a membership row for it, each once, oldest joined_at
\* first; of a community that does not exist, 404.
C7_MembersInJoinOrder ==
    [][\A p \in Procs :
        /\ Runs(p, "getCommunityMembers", "findByPk") =>
              IF FindByPk(reqs[p].id) = Null
              THEN Answered(reqs'[p], 404, ErrorJson("Community not found"))
              ELSE reqs'[p].pc = "schema"
        /\ Runs(p, "getCommunityMembers", "selectMembers") =>
              LET rows == {m \in user_communities : m.community_id = reqs[p].id}
                  list == Answer(reqs'[p]).json.members
              IN  /\ Len(reqs'[p].res) = 1 /\ Answer(reqs'[p]).status = 200
                  /\ Len(list) = Cardinality(rows)
                  /\ {[user_id |-> list[i].id, joined_at |-> list[i].joined_at] :
                        i \in DOMAIN list}
                      = {[user_id |-> m.user_id, joined_at |-> m.joined_at] : m \in rows}
                  /\ \A i \in DOMAIN list : \A j \in DOMAIN list :
                        list[i].id = list[j].id => i = j
                  /\ \A i \in DOMAIN list : \A j \in DOMAIN list :
                        i < j => list[i].joined_at <= list[j].joined_at]_vars

\* three users who joined at times T1 < T2 < T3 were listed
C7_Witness ==
    \E p \in Procs :
        /\ reqs[p].op = "getCommunityMembers" /\ reqs[p].pc = "done"
        /\ Answer(reqs[p]).status = 200
        /\ LET list == Answer(reqs[p]).json.members
           IN  /\ Len(list) = 3
               /\ list[1].joined_at < list[2].joined_at
               /\ list[2].joined_at < list[3].joined_at

\* C8: in every handler, a storage call that fails ends the request with one
\* response, 500 with the generic message; the call is not tried again and no
\* later storage call of the handler runs.
C8_StorageFailure ==
    \A p \in Procs :
        LET r == reqs[p]
        IN  r.threw # "none" =>
                /\ r.pc = "done"
                /\ Answered(r, 500, InternalError)
                /\ r.calls[Len(r.calls)] = r.threw
                /\ Cardinality({i \in DOMAIN r.calls : r.calls[i] = r.threw}) = 1

\* createUserCommunityModel failed inside a join, after the existence check
C8_Witness ==
    \E p \in Procs :
        /\ Joined(reqs[p]) /\ reqs[p].threw = "schema"
        /\ reqs[p].calls = <<"findByPk", "schema">>
        /\ Answered(reqs[p], 500, InternalError)

\* C9: no request updates or deletes a community: every step keeps every
\* community row as it is, and a row is added only by a createCommunity of an
\* admin caller with a non-empty name, which is answered 201.
C9_CommunitiesOnlyGrow ==
    [][/\ communities \subseteq communities'
       /\ communities' # communities =>
            \E p \in Procs :
                /\ At(p, "createCommunity", "create")
                /\ reqs[p].user.role = "admin"
                /\ reqs[p].body.name \notin {Undefined, Null, Str("")}
                /\ Len(reqs'[p].res) = 1 /\ Answer(reqs'[p]).status = 201
                /\ Answer(reqs'[p]).json.id \notin CommunityIdsPresent
                /\ Answer(reqs'[p]).json.name = reqs[p].body.name
                /\ communities' = communities \cup {Answer(reqs'[p]).json}]_vars

\* a community was created and is stored beside the seed community
C9_Witness ==
    \E p \in Procs :
        /\ reqs[p].op = "createCommunity" /\ reqs[p].pc = "done"
        /\ Answer(reqs[p]).status = 201
        /\ Answer(reqs[p]).json \in communities
        /\ SeedCommunity \in communities

\* C10: a step of joinCommunity or leaveCommunity for (u, c), whatever its
\* outcome, leaves the membership rows of every other pair as they were, and
\* with them the communities of every other user and the members of every
\* other community.
OtherRows(table, u, c) == {m \in table : ~(m.user_id = u /\ m.community_id = c)}

C10_OnlyOwnMembership ==
    [][\A p \in Procs :
        Moves(p) /\ reqs'[p].op \in {"joinCommunity", "leaveCommunity"} =>
            LET u == reqs'[p].user.id
                c == reqs'[p].id
            IN  /\ OtherRows(user_communities', u, c) = OtherRows(user_communities, u, c)
                /\ \A v \in UserIds \ {u} :
                     UserCommunitiesQuery(v)' = UserCommunitiesQuery(v)
                /\ \A d \in Ids \ {c} : MemberRows(d)' = MemberRows(d)]_vars

\* a caller left a community that another user stays a member of
C10_Witness ==
    \E p \in Procs :
        /\ reqs[p].op = "leaveCommunity" /\ reqs[p].pc = "done"
        /\ reqs[p].calls = <<"schema", "delete">> /\ reqs[p].threw = "none"
        /\ MembershipRows(reqs[p].user.id, reqs[p].id) = {}
        /\ \E m \in user_communities :
             m.community_id = reqs[p].id /\ m.user_id # reqs[p].user.id

====
